---------------------------- MODULE Spec2Model ----------------------------
(***************************************************************************)
(* A model of rerf-cubes.py, the generator of "Resin Exposure Range        *)
(* Finder" calibration cubes, and of its parameter record context.py.      *)
(*                                                                         *)
(* Lengths are Python floats in the program.  Here a length is an exact    *)
(* number of length units, one unit being 0.0001 mm, so that 0.017 mm is   *)
(* 170 and a "5.3f" rendering (three decimals) really rounds.  A quotient  *)
(* that the program forms before it rounds is kept exact as a fraction     *)
(* [num, den].  The CAD kernel's solids are reduced to what the program    *)
(* itself decides about them: which shapes exist and where they are put.   *)
(***************************************************************************)
EXTENDS Integers, Sequences, FiniteSets, TLC

VARIABLES
    pc,            \* position of the command-line run in __main__
    args,          \* the argparse namespace, filled one argument at a time
    arg_strings,   \* the strings parse_args has converted so far, while it runs
    ctx,           \* the Context record (context.py)
    rerf_number_col, \* outer loop index of the rerf grid
    rerf_number_row, \* inner loop index of the rerf grid
    build_object,  \* the shapes gathered so far, in the order they were added
    calls,         \* the calls of generate_shape_with_support and export_model made so far
    files,         \* the files written to disk
    raised,        \* how the run ended when it did not run to its end
    call,          \* a direct call of one function: the function and its inputs
    ret            \* what that call produced

vars == <<pc, args, arg_strings, ctx, rerf_number_col, rerf_number_row, build_object, calls, files, raised, call, ret>>

(***************************************************************************)
(* Bounds of the model.                                                    *)
(***************************************************************************)
MaxRoundValue == 12
MaxRoundDen == 3
MaxRoundRes == 4
MaxArgLen == 2

(***************************************************************************)
(* Exact arithmetic.                                                       *)
(***************************************************************************)
Abs(n) == IF n < 0 THEN -n ELSE n

Frac(n, d) == [num |-> n, den |-> d]

Whole(n) == Frac(n, 1)

\* Python's round(x) of the fraction num/den, den > 0: to the nearest
\* integer, a tie going to the even neighbour.
PyRound(num, den) ==
    LET q == num \div den
        r == num - (q * den)
    IN  IF 2 * r < den THEN q
        ELSE IF 2 * r > den THEN q + 1
        ELSE IF q % 2 = 0 THEN q ELSE q + 1

\* A plausible slip: truncating with int() instead of rounding.
round_to_resolution_trunc(value, resolution) ==
    LET n == value.num
        d == value.den * resolution
    IN  (IF n >= 0 THEN n \div d ELSE -((-n) \div d)) * resolution

\* A plausible slip: the multiplication by the resolution forgotten, so that
\* the number of steps is returned in place of the length.
round_to_resolution_no_multiplication(value, resolution) ==
    PyRound(value.num, value.den * resolution)

\* round(value / resolution) * resolution
round_to_resolution(value, resolution) ==
    PyRound(value.num, value.den * resolution) * resolution

(***************************************************************************)
(* Text.  A Python str that the program inspects character by character    *)
(* (int(), str.lower()) is a sequence of characters.  A file name is a     *)
(* sequence of pieces: literal text, a "5.3f" rendering of a length and a  *)
(* decimal rendering of an integer.                                        *)
(***************************************************************************)
Digits == {"0", "1", "2", "3", "4", "5", "6", "7", "8", "9"}

DigitValue(c) ==
    CASE c = "0" -> 0 [] c = "1" -> 1 [] c = "2" -> 2 [] c = "3" -> 3 [] c = "4" -> 4
      [] c = "5" -> 5 [] c = "6" -> 6 [] c = "7" -> 7 [] c = "8" -> 8 [] OTHER -> 9

RECURSIVE DigitsValue(_)
DigitsValue(s) ==
    IF s = <<>> THEN 0
    ELSE (10 * DigitsValue(SubSeq(s, 1, Len(s) - 1))) + DigitValue(s[Len(s)])

\* int(value) of a str: an optional sign and one or more decimal digits give
\* the integer, anything else is a ValueError.
python_int(value) ==
    LET negative == Len(value) >= 1 /\ value[1] = "-"
        body == IF negative THEN Tail(value) ELSE value
    IN  IF Len(body) >= 1 /\ \A i \in 1..Len(body) : body[i] \in Digits
        THEN [ok |-> TRUE, value |-> IF negative THEN -DigitsValue(body) ELSE DigitsValue(body)]
        ELSE [ok |-> FALSE, value |-> 0]

LowerChar(c) ==
    CASE c = "S" -> "s" [] c = "T" -> "t" [] c = "L" -> "l" [] c = "E" -> "e"
      [] c = "P" -> "p" [] c = "O" -> "o" [] c = "B" -> "b" [] c = "J" -> "j"
      [] OTHER -> c

\* str.lower()
Lower(s) == [i \in 1..Len(s) |-> LowerChar(s[i])]

Lit(s) == [k |-> "lit", s |-> s, n |-> 0]

\* f"{v:5.3f}": the length v rounded to three decimals, counted in 0.001 mm.
Fixed3(v) == [k |-> "5.3f", s |-> "", n |-> PyRound(v, 10)]

\* f"{n}" of an int
Dec(n) == [k |-> "d", s |-> "", n |-> n]

\* str.__contains__ for a literal piece
Contains(name, s) == \E i \in 1..Len(name) : name[i] = Lit(s)

(***************************************************************************)
(* The defaults of the command line (rerf-cubes.py, lines 381-396), in     *)
(* length units.                                                           *)
(***************************************************************************)
default_layer_height == 500

default_bed_resolution == 170

default_bed_size == <<9024 * default_bed_resolution, 5120 * default_bed_resolution>>

default_cube_size == round_to_resolution(Whole(24000), default_bed_resolution)

default_tube_length == round_to_resolution(Whole(3 * 24000), default_layer_height)

default_tube_hole_diameter == round_to_resolution(Whole(7140), default_bed_resolution)

default_tube_wall_thickness == round_to_resolution(Whole(2000), default_bed_resolution)

default_overlap == round_to_resolution(Whole(default_layer_height * 2), default_layer_height)

default_base_layers == 10

default_zlift_height == 50000

default_position_box_width == round_to_resolution(Whole(5000 * default_bed_resolution), default_bed_resolution)

default_position_box_height == round_to_resolution(Whole(2500 * default_bed_resolution), default_bed_resolution)

default_position_box_location_x == 0

default_position_box_location_y == 0

VERSION == "1.0.0"

(***************************************************************************)
(* row_col_checker (lines 401-412).  A ValueError of int() is caught, but  *)
(* the handler formats ivalue, which was never bound: the handler itself   *)
(* fails with an UnboundLocalError.  The ArgumentTypeError raised inside   *)
(* the try block is no ValueError and passes through.                      *)
(***************************************************************************)
Returned(v) == [stage |-> "returned", exception |-> "", value |-> v]

Raised(e) == [stage |-> "raised", exception |-> e, value |-> 0]

\* A plausible slip: an off-by-one upper limit.
row_col_checker_upper_off_by_one(value) ==
    LET ivalue == python_int(value)
    IN  IF ~ivalue.ok THEN Raised("UnboundLocalError")
        ELSE IF ivalue.value < 1 \/ ivalue.value >= 10 THEN Raised("ArgumentTypeError")
        ELSE Returned(ivalue.value)

row_col_checker(value) ==
    LET ivalue == python_int(value)
    IN  IF ~ivalue.ok THEN Raised("UnboundLocalError")
        ELSE IF ivalue.value < 1 \/ ivalue.value > 10 THEN Raised("ArgumentTypeError")
        ELSE Returned(ivalue.value)

(***************************************************************************)
(* export_model (lines 251-271): what it writes, what it prints to the     *)
(* standard error stream and the exception it ends with ("" for none).     *)
(* The last branch evaluates sys.sdterr, an attribute the sys module does  *)
(* not have, before print is called: an AttributeError, nothing printed.   *)
(***************************************************************************)
export_model(file_name, file_format) ==
    IF Lower(file_format) = <<"s", "t", "l">>
    THEN [written |-> <<[name |-> Append(file_name, Lit(".stl")), exportType |-> "STL"]>>,
          stderr |-> <<>>, exception |-> ""]
    ELSE IF Lower(file_format) = <<"s", "t", "e", "p">>
    THEN [written |-> <<[name |-> Append(file_name, Lit(".step")), exportType |-> "STEP"]>>,
          stderr |-> <<>>, exception |-> ""]
    ELSE [written |-> <<>>, stderr |-> <<>>, exception |-> "AttributeError"]

(***************************************************************************)
(* generate_shape (lines 34-114): the two cubes and the tube between them, *)
(* as the heights the function computes and the numbers it engraves.  No   *)
(* rerf number (Python's None) is 0, which the function does not engrave.  *)
(***************************************************************************)
generate_shape(c, row_col, cube_size, tube_length, tube_hole_diameter, tube_wall_thickness, rerf_number) ==
    [ row_col |-> row_col,
      rerf_number |-> rerf_number,
      rerf_engraved |-> rerf_number # 0,
      cube_size |-> cube_size,
      upper_cube_z |-> round_to_resolution(Whole(cube_size + tube_length), c.layer_height),
      tube_full_length |-> round_to_resolution(Whole(tube_length + c.overlap), c.layer_height),
      tube_radius |-> round_to_resolution(Frac(tube_hole_diameter + (tube_wall_thickness * 2), 2), c.bed_resolution),
      tube_z |-> round_to_resolution(Frac((2 * cube_size) - c.overlap, 2), c.layer_height) ]

(***************************************************************************)
(* generate_shape_with_support (lines 273-379).                            *)
(***************************************************************************)
position_box_width(c) == round_to_resolution(Whole(c.position_box_size[1]), c.bed_resolution)

position_box_height(c) == round_to_resolution(Whole(c.position_box_size[2]), c.bed_resolution)

cube_size_half(c) == round_to_resolution(Frac(c.cube_size, 2), c.bed_resolution)

x_step(c, col_count) ==
    round_to_resolution(Frac(position_box_width(c) - c.cube_size, col_count), c.bed_resolution)

y_step(c, row_count) ==
    round_to_resolution(Frac(position_box_height(c) - c.cube_size, row_count), c.bed_resolution)

\* A plausible slip: the step multiplied by the column index twice.
XOffset_quadratic(c, col_count, col) ==
    round_to_resolution(Whole(cube_size_half(c) + (x_step(c, col_count) * col * col)), c.bed_resolution)

\* x of column col (lines 303, 309)
XOffset(c, col_count, col) ==
    round_to_resolution(Whole(cube_size_half(c) + (x_step(c, col_count) * col)), c.bed_resolution)

\* y of row row (lines 304, 311)
YOffset(c, row_count, row) ==
    round_to_resolution(Whole(cube_size_half(c) + (y_step(c, row_count) * row)), c.bed_resolution)

\* The build object is translated only when both coordinates are above 0 (line 355).
BoxTranslated(c) == c.position_box_location[1] > 0 /\ c.position_box_location[2] > 0

\* One pass of the inner loop body (lines 311-352), then the translation of
\* the whole build object (lines 354-357) applied to this shape.
PlacedShape(c, row_count, col_count, rerf_number, col, row) ==
    LET x == XOffset(c, col_count, col)
        y == YOffset(c, row_count, row)
        shape == generate_shape(c, (row * 10) + col, c.cube_size, c.tube_length,
                                c.tube_hole_diameter, c.tube_wall_thickness, rerf_number)
    IN  [ shape |-> shape, col |-> col, row |-> row, x |-> x, y |-> y,
          z |-> c.zlift_height,
          at |-> IF BoxTranslated(c)
                 THEN <<x + c.position_box_location[1], y + c.position_box_location[2]>>
                 ELSE <<x, y>> ]

\* A plausible slip: both loops running over the columns.
GridShapes_columns_twice(c, row_count, col_count, rerf_number) ==
    [ i \in 1..(col_count * col_count) |->
        PlacedShape(c, col_count, col_count, rerf_number, (i - 1) \div col_count, (i - 1) % col_count) ]

\* The two nested loops (lines 308-352): columns outside, rows inside.
GridShapes(c, row_count, col_count, rerf_number) ==
    [ i \in 1..(col_count * row_count) |->
        PlacedShape(c, row_count, col_count, rerf_number, (i - 1) \div row_count, (i - 1) % row_count) ]

\* A plausible slip: "and" where the position part is decided.
HasPositionPart_and(c) == c.position_box_location[1] > 0 /\ c.position_box_location[2] > 0

\* line 371
HasPositionPart(c) == c.position_box_location[1] > 0 \/ c.position_box_location[2] > 0

\* The file name ctx.file_name is left with (lines 359-377).
NewFileName(c) ==
    IF c.file_name = <<>> THEN c.file_name
    ELSE IF c.rerf
    THEN IF Contains(c.file_name, "_rerf_rc-") THEN c.file_name
         ELSE c.file_name \o <<Lit("_rerf_rc-"), Dec(c.row_count), Lit("_cc-"), Dec(c.col_count),
                               Lit("_lh-"), Fixed3(c.layer_height)>>
    ELSE c.file_name
           \o <<Lit("_cz-"), Fixed3(c.cube_size), Lit("_tl-"), Fixed3(c.tube_length),
                Lit("_thd-"), Fixed3(c.tube_hole_diameter), Lit("_twt-"), Fixed3(c.tube_wall_thickness),
                Lit("_rc-"), Dec(c.row_count), Lit("_cc-"), Dec(c.col_count),
                Lit("_lh-"), Fixed3(c.layer_height),
                Lit("_box-"), Fixed3(c.position_box_size[1]), Lit("x"), Fixed3(c.position_box_size[2])>>
           \o (IF HasPositionPart(c)
               THEN <<Lit("_pos-"), Fixed3(c.position_box_location[1]), Lit("-"),
                      Fixed3(c.position_box_location[2])>>
               ELSE <<>>)

\* A plausible slip: the rounded box size written back into the record.
generate_shape_with_support_stores_box(c, row_count, col_count, rerf_number) ==
    [ build_object |-> GridShapes(c, row_count, col_count, rerf_number),
      ctx |-> [c EXCEPT !.file_name = NewFileName(c),
                        !.position_box_size = <<position_box_width(c), position_box_height(c)>>] ]

\* The whole call: the build object returned and the record as it is left.
generate_shape_with_support(c, row_count, col_count, rerf_number) ==
    [ build_object |-> GridShapes(c, row_count, col_count, rerf_number),
      ctx |-> [c EXCEPT !.file_name = NewFileName(c)] ]

(***************************************************************************)
(* The command line (lines 414-450).  What the model draws for the         *)
(* arguments.                                                              *)
(***************************************************************************)
ArgChars == {"0", "1", "3", "-", "a", "."}

ArgStrings == UNION { [1..n -> ArgChars] : n \in 1..MaxArgLen }

FileNames == { <<>>, <<Lit("cubes")>>, <<Lit("my"), Lit("_rerf_rc-"), Lit("run")>> }

FormatChoices == { <<"s", "t", "l">>, <<"s", "t", "e", "p">> }

FormatStrings == FormatChoices \cup { <<"S", "T", "L">>, <<"S", "t", "e", "p">>, <<"o", "b", "j">>, <<>> }

CubeSizes == { default_cube_size, 140 * default_bed_resolution, 24000 }

BoxSizes == { <<default_position_box_width, default_position_box_height>>, <<30000, 40010>>, <<26000, 50000>> }

BoxLocations == { <<default_position_box_location_x, default_position_box_location_y>>,
                  <<12346, 0>>, <<10000, 20004>> }

\* --bed_size has type=float and no nargs: given on the command line it is one
\* float, while the default is a pair.
BedSizes == { [subscriptable |-> TRUE, item |-> default_bed_size],
              [subscriptable |-> FALSE, item |-> <<1000000>>] }

DefaultBox == <<default_position_box_width, default_position_box_height>>

DefaultLocation == <<default_position_box_location_x, default_position_box_location_y>>

\* The option values the model draws.  A rerf run overwrites the box size and
\* the box location before it reads them and stops at once on a float
\* --bed_size, so those runs are drawn with the defaults and one other choice.
OptionChoices ==
    { o \in [ cube_size : CubeSizes, position_box_size : BoxSizes,
              position_box_location : BoxLocations, rerf : BOOLEAN, bed_size : BedSizes ] :
        /\ o.rerf =>
              \/ o.position_box_size = DefaultBox /\ o.position_box_location = DefaultLocation
              \/ /\ o.position_box_size = <<30000, 40010>>
                 /\ o.position_box_location = <<10000, 20004>>
                 /\ o.cube_size = default_cube_size
        /\ ~o.bed_size.subscriptable =>
              /\ o.cube_size = default_cube_size
              /\ o.position_box_size = DefaultBox
              /\ o.position_box_location = DefaultLocation }

NoError == [exception |-> "", argument |-> "", value |-> <<>>]

NoContext == [file_name |-> <<>>]

(***************************************************************************)
(* The rerf layout of __main__ (lines 485-532).                            *)
(***************************************************************************)
rerf_number_rows == 2

rerf_number_cols == 4

any_cubic_mono_4 == 0

current_printer == any_cubic_mono_4

sequential_to_printer_order == << <<8, 7, 6, 5, 4, 3, 2, 1>> >>

\* A plausible slip: the grid numbered row by row.
sequential_order_row_major(col, row) == (row * rerf_number_cols) + col

\* line 531
sequential_order(col, row) == (col * rerf_number_rows) + row

\* line 532 (Python indexes from 0)
rerf_number_of(col, row) == sequential_to_printer_order[current_printer + 1][sequential_order(col, row) + 1]

\* lines 501-506
rerf_position_box_size(c) ==
    << round_to_resolution(Frac(9 * c.bed_size.item[1], 10 * rerf_number_cols), c.bed_resolution),
       round_to_resolution(Frac(9 * c.bed_size.item[2], 10 * rerf_number_rows), c.bed_resolution) >>

\* lines 509, 513, 518: rerf_x_initial + (rerf_number_col * rerf_x_step)
rerf_x(c, col) ==
    round_to_resolution(
        Frac((c.bed_size.item[1] * rerf_number_cols) + (col * c.bed_size.item[1] * 2 * rerf_number_rows),
             2 * rerf_number_rows * rerf_number_cols),
        c.bed_resolution)

\* lines 510, 514, 522: rerf_y_initial + (rerf_number_row * rerf_y_step)
rerf_y(c, row) ==
    round_to_resolution(
        Frac((c.bed_size.item[2] * rerf_number_rows) + (row * c.bed_size.item[2] * 2 * rerf_number_cols),
             2 * rerf_number_rows * rerf_number_cols),
        c.bed_resolution)

GenerateCall(cell, n) ==
    [fn |-> "generate_shape_with_support", cell |-> cell, rerf_number |-> n,
     file_name |-> <<>>, file_format |-> <<>>]

ExportCall(file_name, file_format) ==
    [fn |-> "export_model", cell |-> <<>>, rerf_number |-> 0,
     file_name |-> file_name, file_format |-> file_format]

(***************************************************************************)
(* The command-line run: __main__ (lines 398-556).                         *)
(***************************************************************************)
Init ==
    /\ pc = "parse_names"
    /\ args = [prog |-> "rerf-cubes.py"]
    /\ arg_strings = <<>>
    /\ ctx = NoContext
    /\ rerf_number_col = 0
    /\ rerf_number_row = 0
    /\ build_object = <<>>
    /\ calls = <<>>
    /\ files = <<>>
    /\ raised = NoError
    /\ call = [fn |-> "none"]
    /\ ret = [stage |-> "none"]

\* The positionals filename and format (lines 419-420): format must be one
\* of the choices, or argparse ends the run.
ParseNames ==
    /\ pc = "parse_names"
    /\ \E filename \in FileNames, format \in FormatStrings :
          IF format \in FormatChoices
          THEN /\ args' = args @@ [filename |-> filename, format |-> format]
               /\ pc' = "parse_row_count"
               /\ raised' = raised
          ELSE /\ args' = args
               /\ pc' = "exit"
               /\ raised' = [exception |-> "SystemExit", argument |-> "format", value |-> format]
    /\ UNCHANGED <<arg_strings, ctx, rerf_number_col, rerf_number_row, build_object, calls, files, call, ret>>

\* argparse calls the type of a positional on its string (lines 421-422): it
\* turns an ArgumentTypeError into its usage error and lets any other
\* exception but TypeError and ValueError pass.
ParseCount(here, argument, next) ==
    /\ pc = here
    /\ \E value \in ArgStrings :
          LET r == row_col_checker(value)
          IN  IF r.stage = "returned"
              THEN /\ args' = args @@ (argument :> r.value)
                   /\ arg_strings' = Append(arg_strings, value)
                   /\ pc' = next
                   /\ raised' = raised
              ELSE /\ args' = args
                   /\ arg_strings' = arg_strings
                   /\ pc' = IF r.exception = "ArgumentTypeError" THEN "exit" ELSE "crashed"
                   /\ raised' = [exception |-> r.exception, argument |-> argument, value |-> value]
    /\ UNCHANGED <<ctx, rerf_number_col, rerf_number_row, build_object, calls, files, call, ret>>

ParseRowCount == ParseCount("parse_row_count", "row_count", "parse_col_count")

ParseColCount == ParseCount("parse_col_count", "col_count", "parse_options")

\* The options (lines 423-436): those the model varies are drawn, the others
\* keep their defaults.  parse_args returns (line 450).
ParseOptions ==
    /\ pc = "parse_options"
    /\ \E o \in OptionChoices :
          args' = args @@ [ cube_size |-> o.cube_size,
                            tube_length |-> default_tube_length,
                            tube_hole_diameter |-> default_tube_hole_diameter,
                            tube_wall_thickness |-> default_tube_wall_thickness,
                            bed_resolution |-> default_bed_resolution,
                            bed_size |-> o.bed_size,
                            layer_height |-> default_layer_height,
                            base_layers |-> default_base_layers,
                            zlift_height |-> default_zlift_height,
                            overlap |-> default_overlap,
                            position_box_size |-> o.position_box_size,
                            position_box_location |-> o.position_box_location,
                            rerf |-> o.rerf,
                            show |-> FALSE ]
    /\ arg_strings' = <<>>
    /\ pc' = "context"
    /\ UNCHANGED <<ctx, rerf_number_col, rerf_number_row, build_object, calls, files, raised, call, ret>>

\* lines 453-473
MakeContext ==
    /\ pc = "context"
    /\ ctx' = [ version |-> VERSION,
                file_name |-> args.filename,
                file_format |-> args.format,
                row_count |-> args.row_count,
                col_count |-> args.col_count,
                cube_size |-> args.cube_size,
                tube_length |-> args.tube_length,
                tube_hole_diameter |-> args.tube_hole_diameter,
                tube_wall_thickness |-> args.tube_wall_thickness,
                bed_resolution |-> args.bed_resolution,
                bed_size |-> args.bed_size,
                layer_height |-> args.layer_height,
                overlap |-> args.overlap,
                base_layers |-> args.base_layers,
                zlift_height |-> args.zlift_height,
                position_box_size |-> args.position_box_size,
                position_box_location |-> args.position_box_location,
                rerf |-> args.rerf,
                show |-> args.show ]
    /\ pc' = "main"
    /\ UNCHANGED <<args, arg_strings, rerf_number_col, rerf_number_row, build_object, calls, files, raised, call, ret>>

\* The non-rerf branch (lines 543-547).
GenerateOne ==
    /\ pc = "main"
    /\ ~ctx.rerf
    /\ LET g == generate_shape_with_support(ctx, ctx.row_count, ctx.col_count, 0)
       IN  /\ build_object' = g.build_object
           /\ ctx' = g.ctx
    /\ calls' = Append(calls, GenerateCall(<<>>, 0))
    /\ pc' = "export"
    /\ UNCHANGED <<args, arg_strings, rerf_number_col, rerf_number_row, files, raised, call, ret>>

\* The rerf branch up to its loops (lines 476-514).  ctx.bed_size[0] of a
\* float is a TypeError.
RerfSetup ==
    /\ pc = "main"
    /\ ctx.rerf
    /\ IF ctx.bed_size.subscriptable
       THEN /\ ctx' = [ctx EXCEPT !.position_box_size = rerf_position_box_size(ctx)]
            /\ pc' = "rerf_loop"
            /\ raised' = raised
       ELSE /\ ctx' = ctx
            /\ pc' = "crashed"
            /\ raised' = [exception |-> "TypeError", argument |-> "bed_size", value |-> <<>>]
    /\ rerf_number_col' = 0
    /\ rerf_number_row' = 0
    /\ UNCHANGED <<args, arg_strings, build_object, calls, files, call, ret>>

\* One pass of the inner rerf loop (lines 516-542).
RerfGenerate ==
    /\ pc = "rerf_loop"
    /\ LET located == [ctx EXCEPT !.position_box_location =
                           <<rerf_x(ctx, rerf_number_col), rerf_y(ctx, rerf_number_row)>>]
           rerf_number == rerf_number_of(rerf_number_col, rerf_number_row)
           g == generate_shape_with_support(located, located.row_count, located.col_count, rerf_number)
       IN  /\ build_object' = build_object \o g.build_object
           /\ ctx' = g.ctx
           /\ calls' = Append(calls, GenerateCall(<<rerf_number_col, rerf_number_row>>, rerf_number))
    /\ IF rerf_number_row + 1 < rerf_number_rows
       THEN /\ rerf_number_row' = rerf_number_row + 1
            /\ rerf_number_col' = rerf_number_col
            /\ pc' = pc
       ELSE /\ rerf_number_row' = 0
            /\ rerf_number_col' = rerf_number_col + 1
            /\ pc' = IF rerf_number_col + 1 < rerf_number_cols THEN pc ELSE "export"
    /\ UNCHANGED <<args, arg_strings, files, raised, call, ret>>

\* A plausible slip: the test of the file name left out.
ExportWanted_always(c) == TRUE

\* line 550
ExportWanted(c) == c.file_name # <<>>

\* lines 549-552
Export ==
    /\ pc = "export"
    /\ IF ExportWanted(ctx)
       THEN LET e == export_model(ctx.file_name, ctx.file_format)
            IN  /\ calls' = Append(calls, ExportCall(ctx.file_name, ctx.file_format))
                /\ files' = files \o e.written
                /\ IF e.exception = ""
                   THEN pc' = "show" /\ raised' = raised
                   ELSE /\ pc' = "crashed"
                        /\ raised' = [exception |-> e.exception, argument |-> "format", value |-> ctx.file_format]
       ELSE /\ pc' = "show"
            /\ UNCHANGED <<calls, files, raised>>
    /\ UNCHANGED <<args, arg_strings, ctx, rerf_number_col, rerf_number_row, build_object, call, ret>>

\* lines 554-556
Show ==
    /\ pc = "show"
    /\ pc' = "done"
    /\ UNCHANGED <<args, arg_strings, ctx, rerf_number_col, rerf_number_row, build_object, calls, files, raised, call, ret>>

Next ==
    \/ ParseNames
    \/ ParseRowCount
    \/ ParseColCount
    \/ ParseOptions
    \/ MakeContext
    \/ GenerateOne
    \/ RerfSetup
    \/ RerfGenerate
    \/ Export
    \/ Show

Spec == Init /\ [][Next]_vars

(***************************************************************************)
(* Direct calls of the functions, one call per behaviour: the inputs are   *)
(* drawn at the start, the call is made, and round_to_resolution is then   *)
(* applied once more to its own result.                                    *)
(***************************************************************************)
RoundCalls ==
    { [fn |-> "round_to_resolution", value |-> Frac(n, d), resolution |-> r] :
        n \in (-MaxRoundValue)..MaxRoundValue, d \in 1..MaxRoundDen, r \in 1..MaxRoundRes }

ExportCalls ==
    { [fn |-> "export_model", file_name |-> f, file_format |-> t] : f \in FileNames, t \in FormatStrings }

CheckerCalls == { [fn |-> "row_col_checker", value |-> v] : v \in ArgStrings }

\* generate_shape reads layer_height, bed_resolution and overlap of the
\* record it is given; the overlaps drawn are positive.
ShapeCubeSizes == CubeSizes \cup { 24200 }

ShapeTubeLengths == { default_tube_length, 72200 }

ShapeOverlaps == { default_overlap, 400 }

GenerateShapeCalls ==
    { [fn |-> "generate_shape",
       c |-> [layer_height |-> default_layer_height, bed_resolution |-> default_bed_resolution,
              overlap |-> overlap],
       row_col |-> 0, cube_size |-> cube_size, tube_length |-> tube_length,
       tube_hole_diameter |-> default_tube_hole_diameter,
       tube_wall_thickness |-> default_tube_wall_thickness, rerf_number |-> n] :
        cube_size \in ShapeCubeSizes, tube_length \in ShapeTubeLengths,
        overlap \in ShapeOverlaps, n \in {0, 5} }

InitCalls ==
    /\ pc = "idle"
    /\ args = [prog |-> "rerf-cubes.py"]
    /\ arg_strings = <<>>
    /\ ctx = NoContext
    /\ rerf_number_col = 0
    /\ rerf_number_row = 0
    /\ build_object = <<>>
    /\ calls = <<>>
    /\ files = <<>>
    /\ raised = NoError
    /\ call \in RoundCalls \cup ExportCalls \cup CheckerCalls \cup GenerateShapeCalls
    /\ ret = [stage |-> "pending"]

CallRound ==
    /\ call.fn = "round_to_resolution"
    /\ ret.stage = "pending"
    /\ ret' = [stage |-> "returned", value |-> round_to_resolution(call.value, call.resolution)]
    /\ UNCHANGED <<call, pc, args, arg_strings, ctx, rerf_number_col, rerf_number_row, build_object, calls, files, raised>>

CallRoundAgain ==
    /\ call.fn = "round_to_resolution"
    /\ ret.stage = "returned"
    /\ ret' = [stage |-> "reapplied", value |-> ret.value,
               again |-> round_to_resolution(Whole(ret.value), call.resolution)]
    /\ UNCHANGED <<call, pc, args, arg_strings, ctx, rerf_number_col, rerf_number_row, build_object, calls, files, raised>>

CallExport ==
    /\ call.fn = "export_model"
    /\ ret.stage = "pending"
    /\ LET e == export_model(call.file_name, call.file_format)
       IN  /\ ret' = [stage |-> IF e.exception = "" THEN "returned" ELSE "raised",
                      exception |-> e.exception, stderr |-> e.stderr]
           /\ files' = files \o e.written
    /\ UNCHANGED <<call, pc, args, arg_strings, ctx, rerf_number_col, rerf_number_row, build_object, calls, raised>>

CallChecker ==
    /\ call.fn = "row_col_checker"
    /\ ret.stage = "pending"
    /\ ret' = row_col_checker(call.value)
    /\ UNCHANGED <<call, pc, args, arg_strings, ctx, rerf_number_col, rerf_number_row, build_object, calls, files, raised>>

CallGenerateShape ==
    /\ call.fn = "generate_shape"
    /\ ret.stage = "pending"
    /\ ret' = [stage |-> "returned",
               shape |-> generate_shape(call.c, call.row_col, call.cube_size, call.tube_length,
                                        call.tube_hole_diameter, call.tube_wall_thickness,
                                        call.rerf_number)]
    /\ UNCHANGED <<call, pc, args, arg_strings, ctx, rerf_number_col, rerf_number_row, build_object, calls, files, raised>>

NextCalls ==
    \/ CallGenerateShape
    \/ CallRound
    \/ CallRoundAgain
    \/ CallExport
    \/ CallChecker

SpecCalls == InitCalls /\ [][NextCalls]_vars

(***************************************************************************)
(* Properties of round_to_resolution.                                      *)
(***************************************************************************)
RoundReturned == call.fn = "round_to_resolution" /\ ret.stage \in {"returned", "reapplied"}

\* C1: for every value and every resolution > 0 the result of
\* round_to_resolution is an integer multiple of the resolution and lies no
\* further than half a resolution from the value.
C1_NearestMultiple ==
    RoundReturned =>
        /\ \E k \in (-(MaxRoundValue + 1))..(MaxRoundValue + 1) : ret.value = k * call.resolution
        /\ 2 * Abs((ret.value * call.value.den) - call.value.num) <= call.resolution * call.value.den

\* C1 witness: a value that is no multiple of the resolution has been rounded.
C1_Witness ==
    /\ RoundReturned
    /\ call.resolution > 1
    /\ call.value.num % (call.value.den * call.resolution) # 0
    /\ ret.value # 0

\* C2: rounding the result of round_to_resolution again, to the same
\* resolution, gives that result back.
C2_Idempotent ==
    (call.fn = "round_to_resolution" /\ ret.stage = "reapplied") => ret.again = ret.value

\* C2 witness: the second rounding has run on a result that differs from the
\* value first given.
C2_Witness ==
    /\ call.fn = "round_to_resolution"
    /\ ret.stage = "reapplied"
    /\ ret.value * call.value.den # call.value.num
    /\ ret.value # 0

(***************************************************************************)
(* Properties of export_model.                                             *)
(***************************************************************************)
Unsupported(file_format) == Lower(file_format) \notin FormatChoices

\* C7: export_model with a format that is neither "stl" nor "step", compared
\* without regard to case, prints the "Unsupported format" message, returns
\* normally and writes no file.
C7_UnsupportedIsPrinted ==
    (call.fn = "export_model" /\ ret.stage # "pending" /\ Unsupported(call.file_format)) =>
        /\ ret.stage = "returned"
        /\ ret.stderr = <<"Unsupported format. Use 'stl' or 'step'.">>
        /\ files = <<>>

(***************************************************************************)
(* Properties of the command-line run.                                     *)
(***************************************************************************)
Generated == pc \in {"export", "show", "done"}

\* The number of shapes one call of generate_shape_with_support adds.
PerBox == ctx.row_count * ctx.col_count

Boxes == 0..((Len(build_object) \div PerBox) - 1)

\* The shape built for column col and row row in the box-th call.
ShapeOf(box, col, row) == build_object[(box * PerBox) + (col * ctx.row_count) + row + 1]

Cols == 0..(ctx.col_count - 1)

Rows == 0..(ctx.row_count - 1)

\* C3: in a non-rerf run with a non-empty base name the final ctx.file_name
\* is the base name, then one suffix that renders cube_size, tube_length,
\* tube_hole_diameter, tube_wall_thickness, row_count, col_count,
\* layer_height and the position-box size, then a "_pos-<x>-<y>" part exactly
\* when a coordinate of position_box_location is above 0: a function of the
\* parameter record alone.
C3_FileNameOfParameters ==
    (Generated /\ ~ctx.rerf /\ args.filename # <<>>) =>
        ctx.file_name =
            args.filename
              \o << Lit("_cz-"), Fixed3(ctx.cube_size), Lit("_tl-"), Fixed3(ctx.tube_length),
                    Lit("_thd-"), Fixed3(ctx.tube_hole_diameter),
                    Lit("_twt-"), Fixed3(ctx.tube_wall_thickness),
                    Lit("_rc-"), Dec(ctx.row_count), Lit("_cc-"), Dec(ctx.col_count),
                    Lit("_lh-"), Fixed3(ctx.layer_height),
                    Lit("_box-"), Fixed3(ctx.position_box_size[1]), Lit("x"),
                    Fixed3(ctx.position_box_size[2]) >>
              \o (IF \E i \in 1..2 : ctx.position_box_location[i] > 0
                  THEN << Lit("_pos-"), Fixed3(ctx.position_box_location[1]), Lit("-"),
                          Fixed3(ctx.position_box_location[2]) >>
                  ELSE <<>>)

\* C3 witness: a non-rerf run has ended with a named file whose box lies at
\* x > 0, y = 0, the x coordinate being rounded in the name.
C3_Witness ==
    /\ pc = "done"
    /\ ~ctx.rerf
    /\ args.filename = <<Lit("cubes")>>
    /\ ctx.position_box_location = <<12346, 0>>
    /\ ctx.file_name[Len(ctx.file_name) - 2] = [k |-> "5.3f", s |-> "", n |-> 1235]

\* C4: the grid offsets are evenly spaced: the x of column col+1 less the x
\* of column col is x_step, the y of row row+1 less the y of row row is
\* y_step, x is the same in every row and y the same in every column.
C4_EvenlySpaced ==
    (pc \in {"rerf_loop", "export", "show", "done"}) =>
        \A box \in Boxes, col \in Cols, row \in Rows :
            LET here == ShapeOf(box, col, row)
            IN  /\ here.col = col /\ here.row = row
                /\ here.x = ShapeOf(box, col, 0).x
                /\ here.y = ShapeOf(box, 0, row).y
                /\ col + 1 < ctx.col_count =>
                       ShapeOf(box, col + 1, row).x - here.x = x_step(ctx, ctx.col_count)
                /\ row + 1 < ctx.row_count =>
                       ShapeOf(box, col, row + 1).y - here.y = y_step(ctx, ctx.row_count)

\* C4 witness: a grid of 3 rows and 10 columns has been built with steps
\* that are not 0.
C4_Witness ==
    /\ pc = "done"
    /\ ctx.row_count = 3
    /\ ctx.col_count = 10
    /\ Len(build_object) = 30
    /\ x_step(ctx, ctx.col_count) > 0
    /\ y_step(ctx, ctx.row_count) > 0

\* C5: when the position box is at least cube_size wide and high, the cube
\* footprint of every shape placed lies within the position box:
\* 0 <= x - cube_size/2, x + cube_size/2 <= position_box_width,
\* 0 <= y - cube_size/2 and y + cube_size/2 <= position_box_height.
C5_WithinPositionBox ==
    (/\ pc \in {"rerf_loop", "export", "show", "done"}
     /\ position_box_width(ctx) >= ctx.cube_size
     /\ position_box_height(ctx) >= ctx.cube_size) =>
        \A box \in Boxes, col \in Cols, row \in Rows :
            LET here == ShapeOf(box, col, row)
            IN  /\ 0 <= (2 * here.x) - ctx.cube_size
                /\ (2 * here.x) + ctx.cube_size <= 2 * position_box_width(ctx)
                /\ 0 <= (2 * here.y) - ctx.cube_size
                /\ (2 * here.y) + ctx.cube_size <= 2 * position_box_height(ctx)

\* C6: in a rerf run the cell (rerf_number_col, rerf_number_row) of the 2x4
\* grid has sequential order col*2 + row in 0..7 and gets rerf number
\* 8 - that order, and once the loops have ended every number 1..8 has been
\* given to exactly one of the 8 cells.
C6_RerfNumbering ==
    /\ \A i \in 1..Len(calls) :
          (calls[i].fn = "generate_shape_with_support" /\ calls[i].cell # <<>>) =>
              LET order == (calls[i].cell[1] * 2) + calls[i].cell[2]
              IN  /\ order \in 0..7
                  /\ calls[i].rerf_number = 8 - order
                  /\ \A box \in Boxes : box = i - 1 =>
                         \A col \in Cols, row \in Rows :
                             ShapeOf(box, col, row).shape.rerf_number = 8 - order
    /\ (Generated /\ ctx.rerf) =>
          /\ \A n \in 1..8 :
                Cardinality({i \in 1..Len(calls) :
                    calls[i].fn = "generate_shape_with_support" /\ calls[i].rerf_number = n}) = 1
          /\ {calls[i].cell : i \in {j \in 1..Len(calls) : calls[j].fn = "generate_shape_with_support"}}
                = (0..3) \X (0..1)

\* C6 witness: a rerf run has ended after its 8 calls.
C6_Witness ==
    /\ pc = "done"
    /\ ctx.rerf
    /\ Cardinality({i \in 1..Len(calls) : calls[i].fn = "generate_shape_with_support"}) = 8

\* C8: row_col_checker accepts an integer string exactly when its value is
\* between 1 and 10: it returns that integer, it raises
\* argparse.ArgumentTypeError for every integer below 1 or above 10, and no
\* generation starts with a row_count or col_count outside 1..10.
C8_CountRange ==
    /\ raised.argument \in {"row_count", "col_count"} =>
          (python_int(raised.value).ok =>
              /\ raised.exception = "ArgumentTypeError"
              /\ python_int(raised.value).value \notin 1..10)
    /\ \A i \in 1..Len(arg_strings) :
          /\ python_int(arg_strings[i]).ok
          /\ python_int(arg_strings[i]).value \in 1..10
          /\ args[IF i = 1 THEN "row_count" ELSE "col_count"] = python_int(arg_strings[i]).value
    /\ pc \in {"main", "rerf_loop", "export", "show", "done"} =>
          /\ ctx.row_count \in 1..10
          /\ ctx.col_count \in 1..10
          /\ ctx.row_count = args.row_count
          /\ ctx.col_count = args.col_count

\* C8 witness: a run was given row count "10" and column count "1", both
\* accepted, and has generated its shapes.
C8_Witness ==
    /\ pc = "done"
    /\ ctx.row_count = 10
    /\ ctx.col_count = 1
    /\ Len(build_object) >= 10

\* The indices of the calls of export_model made so far.
ExportCallsMade == {i \in 1..Len(calls) : calls[i].fn = "export_model"}

C10_GridCentred ==
    (pc \in {"rerf_loop", "export", "show", "done"}) =>
        \A box \in Boxes :
            LET first == ShapeOf(box, 0, 0)
                last == ShapeOf(box, ctx.col_count - 1, ctx.row_count - 1)
                low_x2 == (2 * first.x) - ctx.cube_size
                high_x2 == (2 * position_box_width(ctx)) - ((2 * last.x) + ctx.cube_size)
                low_y2 == (2 * first.y) - ctx.cube_size
                high_y2 == (2 * position_box_height(ctx)) - ((2 * last.y) + ctx.cube_size)
            IN  /\ Abs(low_x2 - high_x2) <= 2 * ctx.bed_resolution
                /\ Abs(low_y2 - high_y2) <= 2 * ctx.bed_resolution

\* The calls of generate_shape_with_support made so far.
GenerateCallsMade == {i \in 1..Len(calls) : calls[i].fn = "generate_shape_with_support"}

\* C11: every call of generate_shape_with_support builds exactly
\* row_count * col_count shapes, one for each row and column: a non-rerf run
\* ends with row_count * col_count shapes in one box, a rerf run with 8
\* boxes of row_count * col_count shapes, the shapes of a box all carrying
\* the rerf number of that box.
C11_ShapesPerBox ==
    (pc \in {"rerf_loop", "export", "show", "done"}) =>
        /\ Len(build_object) = Cardinality(GenerateCallsMade) * ctx.row_count * ctx.col_count
        /\ Generated => Cardinality(GenerateCallsMade) = (IF ctx.rerf THEN 8 ELSE 1)
        /\ \A box \in Boxes :
              /\ \A col \in Cols, row \in Rows :
                    /\ ShapeOf(box, col, row).col = col
                    /\ ShapeOf(box, col, row).row = row
                    /\ ShapeOf(box, col, row).shape.row_col = (row * 10) + col
                    /\ ShapeOf(box, col, row).shape.rerf_number = calls[box + 1].rerf_number
              /\ calls[box + 1].fn = "generate_shape_with_support"
              /\ ctx.rerf => calls[box + 1].rerf_number \in 1..8
              /\ ~ctx.rerf => calls[box + 1].rerf_number = 0

\* C11 witness: a rerf run of 3 rows and 10 columns has ended with its 240
\* shapes.
C11_Witness ==
    /\ pc = "done"
    /\ ctx.rerf
    /\ ctx.row_count = 3
    /\ ctx.col_count = 10
    /\ Len(build_object) = 240

\* C13: in a rerf run, after the 8 calls of generate_shape_with_support,
\* ctx.file_name is the base name of the command line followed by exactly
\* one "_rerf_rc-<row_count>_cc-<col_count>_lh-<layer_height>" suffix, for
\* every base name that is not empty.
C13_RerfSuffixOnce ==
    (Generated /\ ctx.rerf /\ args.filename # <<>>) =>
        ctx.file_name =
            args.filename \o << Lit("_rerf_rc-"), Dec(ctx.row_count), Lit("_cc-"), Dec(ctx.col_count),
                                Lit("_lh-"), Fixed3(ctx.layer_height) >>

\* C14: the build object is moved by (location x, location y, 0) whenever a
\* coordinate of position_box_location is above 0 and stays in place only
\* when both are 0 (stated of the box built last, whose location ctx holds).
C14_TranslatedUnlessAtOrigin ==
    (pc \in {"rerf_loop", "export", "show", "done"} /\ GenerateCallsMade # {}) =>
        \A col \in Cols, row \in Rows :
            LET here == ShapeOf(Cardinality(GenerateCallsMade) - 1, col, row)
            IN  here.at =
                    IF ctx.position_box_location[1] > 0 \/ ctx.position_box_location[2] > 0
                    THEN <<here.x + ctx.position_box_location[1], here.y + ctx.position_box_location[2]>>
                    ELSE <<here.x, here.y>>

\* C15: in a rerf run every position box lies on the build plate: with
\* corner (x, y) = position_box_location, 0 <= x,
\* x + position_box_size[0] <= bed_size[0], 0 <= y and
\* y + position_box_size[1] <= bed_size[1] (stated of the box built last).
C15_BoxesOnBed ==
    (pc \in {"rerf_loop", "export", "show", "done"} /\ ctx.rerf /\ GenerateCallsMade # {}) =>
        /\ 0 <= ctx.position_box_location[1]
        /\ ctx.position_box_location[1] + ctx.position_box_size[1] <= ctx.bed_size.item[1]
        /\ 0 <= ctx.position_box_location[2]
        /\ ctx.position_box_location[2] + ctx.position_box_size[2] <= ctx.bed_size.item[2]

(***************************************************************************)
(* Properties of row_col_checker called directly.                          *)
(***************************************************************************)
\* C12: row_col_checker given a string that is no integer literal raises
\* argparse.ArgumentTypeError and fails in no other way.
C12_NonIntegerIsArgumentTypeError ==
    (call.fn = "row_col_checker" /\ ret.stage # "pending" /\ ~python_int(call.value).ok) =>
        /\ ret.stage = "raised"
        /\ ret.exception = "ArgumentTypeError"

(***************************************************************************)
(* Properties of generate_shape called directly.                           *)
(***************************************************************************)
\* C16: for every cube_size, tube_length and overlap > 0 the tube joins both
\* cubes with overlap into each: after the rounding to layer_height the
\* bottom of the tube (tube_z) is strictly below the top of the base cube
\* (cube_size) and the top of the tube (tube_z + tube_full_length) strictly
\* above the bottom of the upper cube (upper_cube_z).
C16_TubeOverlapsBothCubes ==
    (call.fn = "generate_shape" /\ ret.stage = "returned" /\ call.c.overlap > 0) =>
        /\ ret.shape.tube_z < call.cube_size
        /\ ret.shape.tube_z + ret.shape.tube_full_length > ret.shape.upper_cube_z

(***************************************************************************)
(* The frame of generate_shape_with_support in the command-line run.       *)
(***************************************************************************)
\* The record generate_shape_with_support is called with in this step: ctx
\* itself, or in a rerf run ctx with the box location __main__ has just set
\* (lines 523-524).
RecordPassed ==
    IF ctx.rerf
    THEN [ctx EXCEPT !.position_box_location =
              <<rerf_x(ctx, rerf_number_col), rerf_y(ctx, rerf_number_row)>>]
    ELSE ctx

\* C17: a call of generate_shape_with_support changes no field of the
\* parameter record other than file_name, and changes nothing at all when
\* ctx.file_name is empty.
C17_OnlyFileNameChanges ==
    [][ (pc \in {"main", "rerf_loop"} /\ Len(calls') = Len(calls) + 1) =>
            /\ DOMAIN ctx' = DOMAIN ctx
            /\ \A f \in DOMAIN ctx \ {"file_name"} : ctx'[f] = RecordPassed[f]
            /\ ctx.file_name = <<>> => ctx' = RecordPassed ]_vars

\* C17 witness: a call has returned with the file name changed, in a run
\* whose box size is no multiple of bed_resolution.
C17_Witness ==
    /\ pc = "export"
    /\ ctx.file_name # args.filename
    /\ ctx.position_box_size = <<30000, 40010>>
    /\ position_box_width(ctx) # ctx.position_box_size[1]

=============================================================================
